---- MODULE Spec2Model ----
(***************************************************************************)
(* Alert evaluation and anti-spam engine of Altcoin-Monitor:               *)
(*   lib/dbRepository.ts   stores (settings, monitor state, rules,         *)
(*                         events) and the in-memory cooldown map          *)
(*   lib/prismaClient.ts   evaluateMonitorAlerts / evaluateSpikeAlerts     *)
(*   app/api/alerts/...    the HTTP routes that create rules and settings  *)
(*                                                                         *)
(* Node runs the handlers on one thread: a handler is split into one       *)
(* action per stretch of code between two awaits, and the stretches of     *)
(* different calls interleave.                                             *)
(***************************************************************************)
EXTENDS Integers, Sequences, FiniteSets, TLC

VARIABLES
    now,                \* Date.now(), in ms
    cooldownTracking,   \* dbRepository.ts:373  Map<string, number>
    monitorSettings,    \* table MonitorAlertSettings, keyed (userId, filterSignature)
    monitorState,       \* table MonitorAlertState, keyed (userId, filterSignature)
    alertRules,         \* table AlertRule, keyed id
    alertEvents,        \* table AlertEvent (set of rows)
    pass,               \* the evaluateMonitorAlerts calls in flight, per caller
    spike,              \* the evaluateSpikeAlerts call in flight
    passCount,          \* calls begun so far (numbers the calls)
    lastFire,           \* history: key -> time of the last check that returned true
    lastCheck,          \* history: the cooldown checks the last step made
    lastEval,           \* history: (user, signature) -> member set of the last upsert
    lastCall,           \* history: the last evaluateMonitorAlerts call that returned
    returned,           \* history: what the call that has just returned computed
    telegramLinks,      \* table TelegramLink, keyed userId
    memRules,           \* lib/alertStore.ts: the in-memory Map of rules
    sendLog,            \* history: the notificationProvider.send calls made
    response,           \* history: the last answer of a rule route or store call
    keySubjects         \* history: key -> the subjects whose check of the key passed

vars == <<now, cooldownTracking, monitorSettings, monitorState, alertRules,
          alertEvents, pass, spike, passCount, lastFire, lastCheck, lastEval,
          lastCall, returned, telegramLinks, memRules, sendLog, response,
          keySubjects>>

----------------------------------------------------------------------------
(* Bounds of the model *)

MaxTicks == 2       \* clock ticks of one second
MaxPasses == 2      \* evaluator calls begun when calls interleave
MaxSeqPasses == 2   \* evaluator calls begun when they run one after the other
MaxRules == 1       \* rules created
MaxChurnPasses == 3 \* evaluator calls when the member list loses and regains coins
MaxEvents == 501    \* events logged for the user who lists them
MaxOtherEvents == 1 \* events logged for another user
MaxBaselineN == 3   \* baseline window of a volume request
MaxAbsorbPasses == 4          \* sequential calls of evaluateMonitorAlerts in SpecAbsorb

(* Program constants *)

MsPerSecond == 1000
DefaultMonitorCooldown == 600
DefaultRuleCooldown == 300
DefaultBaselineN == 20
EventCap == 500

NONE == "none"
NoFire == 0 - 1        \* history: the key has never fired

----------------------------------------------------------------------------
(* Inputs *)

Users == {"u1", "u2"}
Procs == {"p1", "p2"}

\* FilterSignatureInput values (alertTests.ts:101-113: only min_market_cap differs)
F1 == [min_market_cap |-> 100, max_market_cap |-> 1000, min_volume_24h |-> 50,
       min_vol_mcap_pct |-> 2]
F2 == [min_market_cap |-> 50, max_market_cap |-> 1000, min_volume_24h |-> 50,
       min_vol_mcap_pct |-> 2]
FilterSets == {F1, F2}

CoinIds == {"c1", "c2", "c3"}
\* coinData: id -> display symbol; two ids may share a ticker
FullCoinData == [id \in CoinIds |-> IF id = "c2" THEN "B" ELSE "A"]
PartialCoinData == [id \in {"c1", "c3"} |-> "A"]
CoinDataChoices == {FullCoinData, PartialCoinData}

\* cooldown_seconds a caller may pass; the last exceeds the age of the clock
CooldownInputs == {0, 1, 2, 2 * DefaultMonitorCooldown}

StartMs == DefaultMonitorCooldown * MsPerSecond

----------------------------------------------------------------------------
(* Maps *)

MapGet(map, key) == IF key \in DOMAIN map THEN map[key] ELSE NONE
MapSet(map, key, v) == [k \in DOMAIN map \cup {key} |-> IF k = key THEN v ELSE map[k]]
EmptyMap == <<>>

----------------------------------------------------------------------------
(* generateFilterSignature *)

\* crypto sha256 hex digest: injective on the texts of the model, no ':' in it
Sha256Hex(str) == "h" \o str

generateFilterSignature(filters) ==
    Sha256Hex(ToString(filters.min_market_cap) \o "|" \o ToString(filters.max_market_cap)
              \o "|" \o ToString(filters.min_volume_24h) \o "|"
              \o ToString(filters.min_vol_mcap_pct))

----------------------------------------------------------------------------
(* Cooldown tracking *)

CoinCooldownKey(userId, symbol, filterSig) ==
    userId \o ":" \o symbol \o ":" \o filterSig

SpikeCooldownKey(ruleId, timeframe, threshold) ==
    "spike:" \o ruleId \o ":" \o timeframe \o ":" \o ToString(threshold)

\* cooldownTracking.get(key) || 0
LastAlerted(map, key) == IF key \in DOMAIN map THEN map[key] ELSE 0

CooldownPassedStrict(t, lastAlerted, cooldownSeconds) ==
    t - lastAlerted > cooldownSeconds * MsPerSecond

\* now - lastAlerted >= cooldownSeconds * 1000
CooldownPassed(t, lastAlerted, cooldownSeconds) ==
    t - lastAlerted >= cooldownSeconds * MsPerSecond

GateOpen(key, cooldownSeconds) ==
    CooldownPassed(now, LastAlerted(cooldownTracking, key), cooldownSeconds)

TrackingAfterNoWrite(map, key, ok, t) == map

\* cooldownTracking.set(key, now) when the check passes
TrackingAfter(map, key, ok, t) == IF ok THEN MapSet(map, key, t) ELSE map

\* history record of one check
CheckRecord(key, cooldownSeconds, ok) ==
    [key |-> key, at |-> now, cd |-> cooldownSeconds, ok |-> ok,
     prevFire |-> IF key \in DOMAIN lastFire THEN lastFire[key] ELSE NoFire,
     hadRecord |-> key \in DOMAIN cooldownTracking]

\* one call of checkAndUpdateCoinCooldown / checkSpikeRuleCooldown on `key`
CooldownCheck(key, cooldownSeconds) ==
    LET ok == GateOpen(key, cooldownSeconds)
    IN /\ cooldownTracking' = TrackingAfter(cooldownTracking, key, ok, now)
       /\ lastFire' = IF ok THEN MapSet(lastFire, key, now) ELSE lastFire
       /\ lastCheck' = <<CheckRecord(key, cooldownSeconds, ok)>>

\* what a key is meant to stand for: the arguments of the call that built it
CoinSubject(userId, symbol, filterSig) == <<"coin", userId, symbol, filterSig>>
SpikeSubject(ruleId, timeframe, threshold) ==
    <<"spike", ruleId, timeframe, ToString(threshold)>>

\* history: the subject whose check of `key` has passed
SubjectsAfter(key, subject, ok) ==
    IF ok THEN MapSet(keySubjects, key,
                      (IF key \in DOMAIN keySubjects THEN keySubjects[key] ELSE {})
                          \cup {subject})
    ELSE keySubjects

----------------------------------------------------------------------------
(* evaluateMonitorAlerts: one call per caller p, one action per await *)

NoCall == [no |-> 0, userId |-> "", filterSig |-> "", ids |-> {}, fresh |-> FALSE,
           enabled |-> FALSE, absorbed |-> {}]

IdlePass ==
    [pc |-> "idle", no |-> 0, userId |-> "", filters |-> F1, filterSig |-> "",
     ids |-> {}, coinData |-> <<>>, enabled |-> TRUE, cooldown_seconds |-> 0,
     hadState |-> FALSE, prev |-> {}, newCoinIds |-> {}, openAtDiff |-> {},
     todo |-> {}, coinId |-> "", firedAt |-> 0, alertsCount |-> 0, pred |-> NoCall]

StateKey(userId, filterSig) == <<userId, filterSig>>

\* new Set(prevState?.prevCoinIds || [])
PreviousCoinIds(stateMap, userId, filterSig) ==
    IF StateKey(userId, filterSig) \in DOMAIN stateMap
    THEN stateMap[StateKey(userId, filterSig)] ELSE {}

NewCoinIdsNoDiff(current, previous) == current

\* ids of the current set that are not in the previous set
NewCoinIds(current, previous) == {id \in current : id \notin previous}

\* a null monitor_filters
NoFilters == [min_market_cap |-> 0, max_market_cap |-> 0, min_volume_24h |-> 0,
              min_vol_mcap_pct |-> 0]

\* The AlertEvent rows. id stands for generateId("ae") (unique): the number of the
\* call and of the alert in it. coinId and ruleThresholds are history fields.
MonitorEvent(r, symbol) ==
    [id |-> <<r.no, r.alertsCount>>, rule_id |-> NONE, type |-> "MONITOR_NEW",
     symbol |-> symbol, coinId |-> r.coinId, timeframe |-> NONE, threshold |-> 0,
     current_vol |-> 0, baseline_vol |-> 0, ruleThresholds |-> <<>>,
     monitor_filters |-> r.filters, triggered_at |-> r.firedAt,
     delivered_channels |-> <<>>, status |-> "triggered", user_id |-> r.userId]

\* history: what a call that returns has computed
Summary(r, result, threw) ==
    [no |-> r.no, userId |-> r.userId, filterSig |-> r.filterSig, ids |-> r.ids,
     coinData |-> r.coinData, enabled |-> r.enabled, hadState |-> r.hadState,
     prev |-> r.prev, newCoinIds |-> r.newCoinIds, openAtDiff |-> r.openAtDiff,
     cooldown_seconds |-> r.cooldown_seconds, result |-> result, threw |-> threw,
     pred |-> r.pred]

NoReturn == Summary(IdlePass, 0, FALSE)

\* history: the ids that a call for the pair of r found new without alerting them
\* (this call, or an earlier one with every list since then holding the id)
AbsorbedAfter(r) ==
    (IF r.pred.userId = r.userId /\ r.pred.filterSig = r.filterSig
     THEN r.pred.absorbed \cap r.ids ELSE {})
        \cup {id \in r.newCoinIds : \A e \in alertEvents : e.id[1] = r.no => e.coinId # id}

\* the call whose locals are r returns `result`, or rejects (threw)
Return(p, r, result, threw) ==
    /\ returned' = Summary(r, result, threw)
    /\ lastCall' = [no |-> r.no, userId |-> r.userId, filterSig |-> r.filterSig,
                    ids |-> r.ids, fresh |-> TRUE, enabled |-> r.enabled,
                    absorbed |-> AbsorbedAfter(r)]
    /\ pass' = [pass EXCEPT ![p] = IdlePass]

\* the loop `for (const coinId of newCoinIds)` goes on, or the call returns alertsCount
Continue(p, r) ==
    IF r.todo = {}
    THEN Return(p, r, r.alertsCount, FALSE)
    ELSE /\ pass' = [pass EXCEPT ![p] = r]
         /\ UNCHANGED lastCall /\ returned' = NoReturn

MonitorBegin(p, limit, users, filterSets, memberSets, coinDatas) ==
    /\ pass[p].pc = "idle"
    /\ passCount < limit
    /\ \E u \in users, f \in filterSets, ids \in memberSets, data \in coinDatas :
         pass' = [pass EXCEPT ![p] =
                    [IdlePass EXCEPT !.pc = "settings", !.no = passCount + 1,
                                     !.userId = u, !.filters = f,
                                     !.filterSig = generateFilterSignature(f),
                                     !.ids = ids, !.coinData = data,
                                     !.pred = lastCall]]
    /\ passCount' = passCount + 1
    /\ lastCheck' = <<>> /\ UNCHANGED <<telegramLinks, memRules, sendLog, response, now, cooldownTracking, monitorSettings, monitorState, alertRules, alertEvents, spike, lastFire, lastEval, lastCall, keySubjects>>
    /\ returned' = NoReturn

DefaultSettings == [enabled |-> TRUE, cooldown_seconds |-> DefaultMonitorCooldown]

\* getOrCreateMonitorAlertSettings, findUnique; then `if (!settings.enabled) return 0`
SettingsFind(p) ==
    LET r == pass[p]
        k == StateKey(r.userId, r.filterSig)
    IN /\ r.pc = "settings"
       /\ IF k \in DOMAIN monitorSettings
          THEN IF monitorSettings[k].enabled
               THEN /\ pass' = [pass EXCEPT ![p].pc = "state",
                                            ![p].cooldown_seconds =
                                                monitorSettings[k].cooldown_seconds]
                    /\ UNCHANGED lastCall /\ returned' = NoReturn
               ELSE Return(p, [r EXCEPT !.enabled = FALSE], 0, FALSE)
          ELSE /\ pass' = [pass EXCEPT ![p].pc = "create"]
               /\ UNCHANGED lastCall /\ returned' = NoReturn
       /\ lastCheck' = <<>> /\ UNCHANGED <<telegramLinks, memRules, sendLog, response, now, cooldownTracking, monitorSettings, monitorState, alertRules, alertEvents, spike, passCount, lastFire, lastEval, keySubjects>>

\* getOrCreateMonitorAlertSettings, create: the (userId, filterSignature) index is
\* unique, so the create of a row that exists by now rejects
SettingsCreate(p) ==
    LET r == pass[p]
        k == StateKey(r.userId, r.filterSig)
    IN /\ r.pc = "create"
       /\ IF k \in DOMAIN monitorSettings
          THEN /\ Return(p, r, 0, TRUE)
               /\ UNCHANGED monitorSettings
          ELSE /\ monitorSettings' = MapSet(monitorSettings, k, DefaultSettings)
               /\ pass' = [pass EXCEPT ![p].pc = "state",
                                       ![p].cooldown_seconds =
                                           DefaultSettings.cooldown_seconds]
               /\ UNCHANGED lastCall /\ returned' = NoReturn
       /\ lastCheck' = <<>> /\ UNCHANGED <<telegramLinks, memRules, sendLog, response, now, cooldownTracking, monitorState, alertRules, alertEvents, spike, passCount, lastFire, lastEval, keySubjects>>

\* getMonitorAlertState, and the diff of the current ids against it
GetState(p) ==
    LET r == pass[p]
        prev == PreviousCoinIds(monitorState, r.userId, r.filterSig)
        new == NewCoinIds(r.ids, prev)
    IN /\ r.pc = "state"
       /\ pass' = [pass EXCEPT ![p] =
                     [r EXCEPT !.pc = "upsert",
                               !.hadState = StateKey(r.userId, r.filterSig)
                                                \in DOMAIN monitorState,
                               !.prev = prev, !.newCoinIds = new, !.todo = new,
                               !.openAtDiff =
                                   {id \in new : /\ id \in DOMAIN r.coinData
                                                 /\ GateOpen(CoinCooldownKey(r.userId,
                                                        r.coinData[id], r.filterSig),
                                                        r.cooldown_seconds)}]]
       /\ lastCheck' = <<>> /\ UNCHANGED <<telegramLinks, memRules, sendLog, response, now, cooldownTracking, monitorSettings, monitorState, alertRules, alertEvents, spike, passCount, lastFire, lastEval, lastCall, keySubjects>>
    /\ returned' = NoReturn

UpsertKeyByUser(userId, filterSig) == StateKey(userId, "")

\* where: { userId_filterSignature: { userId, filterSignature } }
UpsertKey(userId, filterSig) == StateKey(userId, filterSig)

\* upsertMonitorAlertState(userId, filterSig, currentFilteredCoinIds)
Upsert(p) ==
    LET r == pass[p]
    IN /\ r.pc = "upsert"
       /\ monitorState' = MapSet(monitorState, UpsertKey(r.userId, r.filterSig), r.ids)
       /\ lastEval' = MapSet(lastEval, StateKey(r.userId, r.filterSig), r.ids)
       /\ Continue(p, [r EXCEPT !.pc = "loop"])
       /\ lastCheck' = <<>> /\ UNCHANGED <<telegramLinks, memRules, sendLog, response, now, cooldownTracking, monitorSettings, alertRules, alertEvents, spike, passCount, lastFire, keySubjects>>

\* one iteration of the loop up to its first await: the lookup of the coin, the
\* cooldown check and, when it passes, the construction of the event
ProcessCoin(p) ==
    LET r == pass[p]
    IN /\ r.pc = "loop"
       /\ \E id \in r.todo :
            LET rest == [r EXCEPT !.todo = r.todo \ {id}]
            IN IF id \notin DOMAIN r.coinData
               THEN /\ Continue(p, rest)
                    /\ lastCheck' = <<>> /\ UNCHANGED <<cooldownTracking, lastFire, keySubjects>>
               ELSE LET key == CoinCooldownKey(r.userId, r.coinData[id], r.filterSig)
                    IN /\ CooldownCheck(key, r.cooldown_seconds)
                       /\ keySubjects' =
                              SubjectsAfter(key, CoinSubject(r.userId, r.coinData[id],
                                                             r.filterSig),
                                            GateOpen(key, r.cooldown_seconds))
                       /\ IF GateOpen(key, r.cooldown_seconds)
                          THEN /\ pass' = [pass EXCEPT ![p] =
                                            [rest EXCEPT !.pc = "append", !.coinId = id,
                                                         !.firedAt = now]]
                               /\ UNCHANGED lastCall /\ returned' = NoReturn
                          ELSE Continue(p, rest)
       /\ UNCHANGED <<telegramLinks, memRules, sendLog, response, now, monitorSettings, monitorState, alertRules, alertEvents, spike, passCount, lastEval>>

AppendEventDeferred(p) ==
    /\ pass[p].pc = "append"
    /\ pass' = [pass EXCEPT ![p].pc = "send"]
    /\ lastCheck' = <<>> /\ returned' = NoReturn
    /\ UNCHANGED <<telegramLinks, memRules, sendLog, response, now, cooldownTracking, monitorSettings, monitorState, alertRules, alertEvents, spike, passCount, lastFire, lastEval, lastCall, keySubjects>>

\* await createAlertEvent(event)
AppendEvent(p) ==
    LET r == pass[p]
    IN /\ r.pc = "append"
       /\ alertEvents' = alertEvents \cup {MonitorEvent(r, r.coinData[r.coinId])}
       /\ pass' = [pass EXCEPT ![p].pc = "send"]
       /\ lastCheck' = <<>> /\ UNCHANGED <<telegramLinks, memRules, sendLog, response, now, cooldownTracking, monitorSettings, monitorState, alertRules, spike, passCount, lastFire, lastEval, lastCall, keySubjects>>
    /\ returned' = NoReturn

\* TelegramNotificationProvider.getStatus: !!(link?.chatId && link.enabled)
TelegramStatus(userId) ==
    /\ userId \in DOMAIN telegramLinks
    /\ telegramLinks[userId].chatId # ""
    /\ telegramLinks[userId].enabled

\* history record of one notificationProvider.send(userId, channel, payload) made
\* for the event `id`; outcome: "sent" (true), "refused" (false) or "threw"
SendRecord(id, userId, channel, outcome) ==
    [id |-> id, user_id |-> userId, channel |-> channel, outcome |-> outcome,
     telegramStatus |-> TelegramStatus(userId)]

\* await notificationProvider.send(userId, "inApp", ...) inside try/catch, with the
\* given outcome; the push onto the local event.delivered_channels is never
\* written back to the stored row; alertsCount++
SendWith(p, outcome) ==
    LET r == pass[p]
    IN /\ r.pc = "send"
       /\ sendLog' = sendLog \cup
                        {SendRecord(<<r.no, r.alertsCount>>, r.userId, "inApp", outcome)}
       /\ Continue(p, [r EXCEPT !.pc = "loop", !.alertsCount = r.alertsCount + 1])
       /\ lastCheck' = <<>> /\ UNCHANGED <<telegramLinks, memRules, response, now, cooldownTracking, monitorSettings, monitorState, alertRules, alertEvents, spike, passCount, lastFire, lastEval, keySubjects>>

\* the send resolves true (InAppNotificationProvider.send on channel "inApp")
SendNotification(p) == SendWith(p, "sent")

\* the send resolves false
SendNotificationRefused(p) == SendWith(p, "refused")

\* the send rejects; the catch logs the error
SendNotificationThrows(p) == SendWith(p, "threw")

\* await createAlertEvent(event) rejects: the await is outside every try of
\* evaluateMonitorAlerts, so the call rejects
AppendEventThrows(p) ==
    LET r == pass[p]
    IN /\ r.pc = "append"
       /\ Return(p, r, 0, TRUE)
       /\ lastCheck' = <<>> /\ UNCHANGED <<telegramLinks, memRules, sendLog, response, now, cooldownTracking, monitorSettings, monitorState, alertRules, alertEvents, spike, passCount, lastFire, lastEval, keySubjects>>

\* getOrCreateTelegramLink and updateTelegramChatId(userId, chatId, enabled)
LinkTelegram(users) ==
    /\ \E u \in users :
         /\ ~TelegramStatus(u)
         /\ telegramLinks' = MapSet(telegramLinks, u, [chatId |-> "chat", enabled |-> TRUE])
    /\ lastCheck' = <<>> /\ UNCHANGED <<memRules, sendLog, response, now, cooldownTracking, monitorSettings, monitorState, alertRules, alertEvents, pass, spike, passCount, lastFire, lastEval, lastCall, keySubjects>>
    /\ returned' = NoReturn

----------------------------------------------------------------------------
(* PUT /api/alerts/monitor -> updateMonitorAlertSettings *)

\* a field of the request body: given or left out
Absent == [given |-> FALSE, v |-> 0]
AbsentFlag == [given |-> FALSE, v |-> TRUE]
Given(x) == [given |-> TRUE, v |-> x]
EnabledInputs == {AbsentFlag, [given |-> TRUE, v |-> TRUE],
                  [given |-> TRUE, v |-> FALSE]}
CooldownFieldInputs == {Absent} \cup {Given(c) : c \in CooldownInputs}

\* enabled !== undefined ? enabled : true
RouteEnabled(e) == IF e.given THEN e.v ELSE TRUE

\* cooldown_seconds || 600
RouteMonitorCooldown(c) == IF c.given /\ c.v # 0 THEN c.v ELSE DefaultMonitorCooldown

\* the route and the prisma upsert it ends in (one statement of the store)
UpdateMonitorSettings(users, filterSets, enabledIn, cooldownIn) ==
    /\ \E u \in users, f \in filterSets, e \in enabledIn, c \in cooldownIn :
         monitorSettings' =
             MapSet(monitorSettings, StateKey(u, generateFilterSignature(f)),
                    [enabled |-> RouteEnabled(e),
                     cooldown_seconds |-> RouteMonitorCooldown(c)])
    /\ monitorSettings' # monitorSettings
    /\ lastCall' = [lastCall EXCEPT !.fresh = FALSE]
    /\ returned' = NoReturn
    /\ lastCheck' = <<>> /\ UNCHANGED <<telegramLinks, memRules, sendLog, response, now, cooldownTracking, monitorState, alertRules, alertEvents, pass, spike, passCount, lastFire, lastEval, keySubjects>>

----------------------------------------------------------------------------
(* The clock, and the cooldown functions called directly (alertTests.ts) *)

Tick ==
    /\ now < StartMs + MaxTicks * MsPerSecond
    /\ now' = now + MsPerSecond
    /\ lastCheck' = <<>> /\ UNCHANGED <<telegramLinks, memRules, sendLog, response, cooldownTracking, monitorSettings, monitorState, alertRules, alertEvents, pass, spike, passCount, lastFire, lastEval, lastCall, keySubjects>>
    /\ returned' = NoReturn

\* checkAndUpdateCoinCooldown(userId, symbol, filterSig, cooldownSeconds)
DirectCoinCheck(users, symbols, filterSets, cooldowns) ==
    /\ \E u \in users, sym \in symbols, f \in filterSets, c \in cooldowns :
         LET key == CoinCooldownKey(u, sym, generateFilterSignature(f))
         IN /\ CooldownCheck(key, c)
            /\ keySubjects' =
                   SubjectsAfter(key, CoinSubject(u, sym, generateFilterSignature(f)),
                                 GateOpen(key, c))
    /\ UNCHANGED <<telegramLinks, memRules, sendLog, response, now, monitorSettings, monitorState, alertRules, alertEvents, pass, spike, passCount, lastEval, lastCall>>
    /\ returned' = NoReturn

\* checkSpikeRuleCooldown(ruleId, timeframe, threshold, cooldownSeconds)
DirectSpikeCheck(ruleIds, timeframes, thresholds, cooldowns) ==
    /\ \E id \in ruleIds, tf \in timeframes, th \in thresholds, c \in cooldowns :
         LET key == SpikeCooldownKey(id, tf, th)
         IN /\ CooldownCheck(key, c)
            /\ keySubjects' = SubjectsAfter(key, SpikeSubject(id, tf, th), GateOpen(key, c))
    /\ UNCHANGED <<telegramLinks, memRules, sendLog, response, now, monitorSettings, monitorState, alertRules, alertEvents, pass, spike, passCount, lastEval, lastCall>>
    /\ returned' = NoReturn

----------------------------------------------------------------------------
(* POST /api/alerts/rules -> createAlertRule *)

SymbolInputs == {"btc"}
\* String.prototype.toUpperCase on the symbols of the model
ToUpperCase(sym) == IF sym = "btc" THEN "BTC" ELSE sym

TimeframeInputs == {<<"1h">>, <<"1h", "1h">>, <<"1h", "4h">>}
ThresholdInputs == {<<2, 3>>}

\* `ar_${Date.now()}_${random}`: unique
RuleId(n) == "ar" \o ToString(n)

\* cooldown_seconds || 300
RouteRuleCooldown(c) == IF c.given /\ c.v # 0 THEN c.v ELSE DefaultRuleCooldown

\* baseline_n || 20
RouteBaselineN(b) == IF b.given /\ b.v # 0 THEN b.v ELSE DefaultBaselineN

\* enabled: true, whatever the body holds
RouteRuleEnabled(e) == TRUE

\* !symbol: the empty string is falsy
FalsyString(str) == str = ""

\* !timeframes, !thresholds: an array is truthy, the empty one too
FalsyArray(arr) == FALSE

\* the fields of a request body
Request(id, sym, tfs, ths, b, c, e) ==
    [id |-> id, symbol |-> sym, timeframes |-> tfs, thresholds |-> ths,
     baseline_n |-> b, cooldown_seconds |-> c, enabled |-> e]

\* history record of the answer to a rule request: op, HTTP status (0 for a direct
\* call of the store), error, the request, and the rule store before and after
Answer(op, status, error, req, before, after) ==
    [op |-> op, status |-> status, error |-> error, req |-> req,
     before |-> before, after |-> after]

NoResponse ==
    Answer("", 0, "", Request("", "", <<>>, <<>>, Absent, Absent, AbsentFlag),
           EmptyMap, EmptyMap)

\* POST /api/alerts/rules: validation, defaults, createAlertRule
PostRule(users, symbolIn, timeframeIn, thresholdIn, baselineIn, cooldownIn, enabledIn) ==
    /\ Cardinality(DOMAIN alertRules) < MaxRules
    /\ \E u \in users, sym \in symbolIn, tfs \in timeframeIn, ths \in thresholdIn,
          b \in baselineIn, c \in cooldownIn, e \in enabledIn :
         LET id == RuleId(Cardinality(DOMAIN alertRules) + 1)
             req == Request(id, sym, tfs, ths, b, c, e)
         IN IF FalsyString(sym) \/ FalsyArray(tfs) \/ FalsyArray(ths)
            THEN /\ UNCHANGED alertRules
                 /\ response' = Answer("POST", 400, "validation", req, alertRules,
                                       alertRules)
            ELSE /\ alertRules' =
                        MapSet(alertRules, id,
                               [id |-> id, user_id |-> u, symbol |-> ToUpperCase(sym),
                                timeframes |-> tfs, thresholds |-> ths,
                                baseline_n |-> RouteBaselineN(b),
                                cooldown_seconds |-> RouteRuleCooldown(c),
                                enabled |-> RouteRuleEnabled(e)])
                 /\ response' = Answer("POST", 201, "", req, alertRules, alertRules')
    /\ lastCheck' = <<>> /\ UNCHANGED <<telegramLinks, memRules, sendLog, now, cooldownTracking, monitorSettings, monitorState, alertEvents, pass, spike, passCount, lastFire, lastEval, lastCall, keySubjects>>
    /\ returned' = NoReturn

\* a POST with a symbol, and no baseline_n and no enabled in the body
CreateRule(users, timeframeIn, thresholdIn, cooldownIn) ==
    PostRule(users, SymbolInputs, timeframeIn, thresholdIn, {Absent}, cooldownIn,
             {AbsentFlag})

\* prisma.alertRule.update: a field that is undefined in `data` is left as it is
UpdatedField(old, field) == IF field.given THEN field.v ELSE old

\* PUT /api/alerts/rules -> updateAlertRule; prisma.alertRule.update rejects when no
\* row has the id, and the route's catch answers 500 with the error's message.
\* `data` holds enabled, cooldownSeconds, timeframesJson, thresholdsJson and
\* baselineN: a symbol (or user_id) in the body never reaches the row. A symbol
\* of "" stands for a body without symbol.
PutRuleBody(ids, symbolIn, cooldownIn, enabledIn) ==
    /\ \E id \in ids, sym \in symbolIn, c \in cooldownIn, e \in enabledIn :
         LET req == Request(id, sym, <<>>, <<>>, Absent, c, e)
         IN IF FalsyString(id)
            THEN /\ UNCHANGED alertRules
                 /\ response' = Answer("PUT", 400, "validation", req, alertRules,
                                       alertRules)
            ELSE IF id \notin DOMAIN alertRules
            THEN /\ UNCHANGED alertRules
                 /\ response' = Answer("PUT", 500, "notFound", req, alertRules,
                                       alertRules)
            ELSE /\ alertRules' =
                        [alertRules EXCEPT
                           ![id].cooldown_seconds = UpdatedField(@, c),
                           ![id].enabled = UpdatedField(@, e)]
                 /\ response' = Answer("PUT", 200, "", req, alertRules, alertRules')
    /\ response' # response
    /\ lastCheck' = <<>> /\ UNCHANGED <<telegramLinks, memRules, sendLog, now, cooldownTracking, monitorSettings, monitorState, alertEvents, pass, spike, passCount, lastFire, lastEval, lastCall, keySubjects>>
    /\ returned' = NoReturn

\* a PUT whose body holds the id and, or not, cooldown_seconds and enabled
PutRule(ids, cooldownIn, enabledIn) == PutRuleBody(ids, {""}, cooldownIn, enabledIn)

(* lib/alertStore.ts: the in-memory store *)

\* the AlertRule objects handed to the in-memory store
StoreRuleInputs ==
    {[id |-> id, user_id |-> "u1", symbol |-> "BTC", timeframes |-> <<"1h">>,
      thresholds |-> <<2, 3>>, baseline_n |-> DefaultBaselineN,
      cooldown_seconds |-> c, enabled |-> e] :
        id \in {"m1", "m2"}, c \in {0, DefaultRuleCooldown}, e \in BOOLEAN}

StoreRequest(rule) ==
    Request(rule.id, rule.symbol, rule.timeframes, rule.thresholds,
            Given(rule.baseline_n), Given(rule.cooldown_seconds), Given(rule.enabled))

\* alertStore createAlertRule: alertRules.set(rule.id, rule)
StoreCreateRule(rules) ==
    /\ \E rule \in rules :
         /\ rule.id \notin DOMAIN memRules
         /\ memRules' = MapSet(memRules, rule.id, rule)
         /\ response' = Answer("store.create", 0, "", StoreRequest(rule), memRules,
                               memRules')
    /\ lastCheck' = <<>> /\ UNCHANGED <<telegramLinks, sendLog, now, cooldownTracking, monitorSettings, monitorState, alertRules, alertEvents, pass, spike, passCount, lastFire, lastEval, lastCall, keySubjects>>
    /\ returned' = NoReturn

\* alertStore updateAlertRule: alertRules.set(rule.id, { ...rule, updated_at })
StoreUpdateRule(rules) ==
    /\ \E rule \in rules :
         /\ memRules' = MapSet(memRules, rule.id, rule)
         /\ response' = Answer("store.update", 0, "", StoreRequest(rule), memRules,
                               memRules')
    /\ response' # response
    /\ lastCheck' = <<>> /\ UNCHANGED <<telegramLinks, sendLog, now, cooldownTracking, monitorSettings, monitorState, alertRules, alertEvents, pass, spike, passCount, lastFire, lastEval, lastCall, keySubjects>>
    /\ returned' = NoReturn

\* the object spread { ...obj, ...over }
Spread(obj, over) ==
    [k \in DOMAIN obj \cup DOMAIN over |-> IF k \in DOMAIN over THEN over[k] ELSE obj[k]]

\* a partial rule object { id, cooldown_seconds?, enabled? }, typed AlertRule
PartialRule(id, c, e) ==
    Spread(Spread([id |-> id], IF c.given THEN [cooldown_seconds |-> c.v] ELSE <<>>),
           IF e.given THEN [enabled |-> e.v] ELSE <<>>)

\* alertStore updateAlertRule called with a partial object on a rule of the store:
\* alertRules.set(rule.id, { ...rule, updated_at }) puts the partial object in
\* the place of the stored one
StoreUpdatePartial(ids, cooldownIn, enabledIn) ==
    /\ \E id \in ids, c \in cooldownIn, e \in enabledIn :
         /\ id \in DOMAIN memRules
         /\ memRules' = MapSet(memRules, id, PartialRule(id, c, e))
         /\ response' = Answer("store.update", 0, "",
                               Request(id, "", <<>>, <<>>, Absent, c, e), memRules,
                               memRules')
    /\ response' # response
    /\ lastCheck' = <<>> /\ UNCHANGED <<telegramLinks, sendLog, now, cooldownTracking, monitorSettings, monitorState, alertRules, alertEvents, pass, spike, passCount, lastFire, lastEval, lastCall, keySubjects>>
    /\ returned' = NoReturn

\* alertStore getUserAlertRules: the rules whose user_id === userId
StoreUserRules(rules, userId) ==
    {id \in DOMAIN rules : "user_id" \in DOMAIN rules[id] /\ rules[id].user_id = userId}

----------------------------------------------------------------------------
(* evaluateSpikeAlerts *)

NoRule == [id |-> "", user_id |-> "", symbol |-> "", timeframes |-> <<>>,
           thresholds |-> <<>>, baseline_n |-> 0, cooldown_seconds |-> 0,
           enabled |-> FALSE]

IdleSpike ==
    [pc |-> "idle", no |-> 0, userId |-> "", rules |-> <<>>, rule |-> NoRule,
     tfs |-> <<>>, alertsCount |-> 0, threshold |-> 0, currentVol |-> 0,
     baselineVol |-> 0, firedAt |-> 0, failed |-> {}]

\* volumes the candles may give: no baseline, and ratios 1, 2.5 and 3.5
BaselineVolumes == {0, 10}
CurrentVolumes == {10, 25, 35}

RECURSIVE InsertDescending(_, _)
InsertDescending(x, seq) ==
    IF seq = <<>> THEN <<x>>
    ELSE IF x > Head(seq) THEN <<x>> \o seq
    ELSE <<Head(seq)>> \o InsertDescending(x, Tail(seq))

RECURSIVE SortDescending(_)
\* rule.thresholds.sort((a, b) => b - a)
SortDescending(seq) ==
    IF seq = <<>> THEN <<>> ELSE InsertDescending(Head(seq), SortDescending(Tail(seq)))

RECURSIVE RulesFrom(_, _, _)
\* getUserAlertRules: the rows of the user, in the order of their creation
RulesFrom(rules, userId, n) ==
    IF RuleId(n) \notin DOMAIN rules THEN <<>>
    ELSE (IF rules[RuleId(n)].user_id = userId THEN <<rules[RuleId(n)]>> ELSE <<>>)
         \o RulesFrom(rules, userId, n + 1)

getUserAlertRules(userId) == RulesFrom(alertRules, userId, 1)

\* ratio = currentVol / baselineVol; ratio >= threshold   (baselineVol > 0)
RatioAtLeast(currentVol, baselineVol, threshold) == currentVol >= threshold * baselineVol

Minimum(S) == CHOOSE x \in S : \A y \in S : x <= y

FiringIndexNoFallThrough(sorted, currentVol, baselineVol, ruleId, tf, cooldownSeconds) ==
    LET qualifying == {i \in 1..Len(sorted) :
                          RatioAtLeast(currentVol, baselineVol, sorted[i])}
    IN IF qualifying = {} THEN 0
       ELSE IF GateOpen(SpikeCooldownKey(ruleId, tf, sorted[Minimum(qualifying)]),
                        cooldownSeconds)
            THEN Minimum(qualifying) ELSE 0

\* The loop over the sorted thresholds: the index of the first threshold that the
\* ratio reaches and whose cooldown check passes (the loop breaks there), 0 if none.
\* A threshold whose check fails does not end the loop.
FiringIndex(sorted, currentVol, baselineVol, ruleId, tf, cooldownSeconds) ==
    LET firing == {i \in 1..Len(sorted) :
                      /\ RatioAtLeast(currentVol, baselineVol, sorted[i])
                      /\ GateOpen(SpikeCooldownKey(ruleId, tf, sorted[i]), cooldownSeconds)}
    IN IF firing = {} THEN 0 ELSE Minimum(firing)

RECURSIVE ChecksMade(_, _, _, _, _, _, _, _)
\* history: the cooldown checks the loop makes, up to the one that passes
ChecksMade(sorted, i, fireIdx, currentVol, baselineVol, ruleId, tf, cooldownSeconds) ==
    IF i > Len(sorted) \/ (fireIdx # 0 /\ i > fireIdx) THEN <<>>
    ELSE (IF RatioAtLeast(currentVol, baselineVol, sorted[i])
          THEN <<CheckRecord(SpikeCooldownKey(ruleId, tf, sorted[i]), cooldownSeconds,
                             i = fireIdx)>>
          ELSE <<>>)
         \o ChecksMade(sorted, i + 1, fireIdx, currentVol, baselineVol, ruleId, tf,
                       cooldownSeconds)

RECURSIVE SpikeAdvance(_)
\* the loops `for (const rule of rules)` / `for (const timeframe of rule.timeframes)`
\* up to the next timeframe to evaluate; a disabled rule is skipped
SpikeAdvance(s) ==
    IF s.tfs # <<>> THEN [s EXCEPT !.pc = "pair"]
    ELSE IF s.rules = <<>> THEN [s EXCEPT !.pc = "return"]
    ELSE SpikeAdvance([s EXCEPT !.rules = Tail(s.rules), !.rule = Head(s.rules),
                                !.tfs = IF Head(s.rules).enabled
                                        THEN Head(s.rules).timeframes ELSE <<>>])

\* the call goes on to the next timeframe, or returns alertsCount
SpikeContinue(s) ==
    LET t == SpikeAdvance(s)
    IN spike' = IF t.pc = "return" THEN IdleSpike ELSE t

SpikeEvent(s) ==
    [id |-> <<s.no, s.alertsCount>>, rule_id |-> s.rule.id, type |-> "SPIKE",
     symbol |-> s.rule.symbol, coinId |-> "", timeframe |-> Head(s.tfs),
     threshold |-> s.threshold, current_vol |-> s.currentVol,
     baseline_vol |-> s.baselineVol, ruleThresholds |-> s.rule.thresholds,
     monitor_filters |-> NoFilters, triggered_at |-> s.firedAt,
     delivered_channels |-> <<>>, status |-> "triggered", user_id |-> s.userId]

SpikeBegin(limit, users) ==
    /\ spike.pc = "idle"
    /\ passCount < limit
    /\ \E u \in users :
         spike' = [IdleSpike EXCEPT !.pc = "rules", !.no = passCount + 1, !.userId = u]
    /\ passCount' = passCount + 1
    /\ lastCheck' = <<>> /\ UNCHANGED <<telegramLinks, memRules, sendLog, response, now, cooldownTracking, monitorSettings, monitorState, alertRules, alertEvents, pass, lastFire, lastEval, lastCall, keySubjects>>
    /\ returned' = NoReturn

\* await getUserAlertRules(userId)
SpikeLoadRules ==
    /\ spike.pc = "rules"
    /\ SpikeContinue([spike EXCEPT !.rules = getUserAlertRules(spike.userId)])
    /\ lastCheck' = <<>> /\ UNCHANGED <<telegramLinks, memRules, sendLog, response, now, cooldownTracking, monitorSettings, monitorState, alertRules, alertEvents, pass, passCount, lastFire, lastEval, lastCall, keySubjects>>
    /\ returned' = NoReturn

\* One (rule, timeframe): the two volume fetches, the ratio, the loop over the
\* thresholds and, when a check passes, the construction of the event.
SpikePair(baselineVols, currentVols) ==
    /\ spike.pc = "pair"
    /\ \E b \in baselineVols, c \in currentVols :
         LET s == spike
             tf == Head(s.tfs)
             cd == s.rule.cooldown_seconds
         IN IF b <= 0
            THEN /\ SpikeContinue([s EXCEPT !.tfs = Tail(s.tfs),
                                            !.failed = s.failed \cup {<<s.rule.id, tf>>}])
                 /\ lastCheck' = <<>> /\ UNCHANGED <<cooldownTracking, lastFire, keySubjects>>
            ELSE LET sorted == SortDescending(s.rule.thresholds)
                     i == FiringIndex(sorted, c, b, s.rule.id, tf, cd)
                     made == ChecksMade(sorted, 1, i, c, b, s.rule.id, tf, cd)
                     key == SpikeCooldownKey(s.rule.id, tf, sorted[i])
                     t == [s EXCEPT !.rule.thresholds = sorted,
                                    !.failed = IF c <= 0
                                               THEN s.failed \cup {<<s.rule.id, tf>>}
                                               ELSE s.failed]
                 IN /\ lastCheck' = IF made = <<>> THEN lastCheck ELSE made
                    /\ IF i = 0
                       THEN /\ SpikeContinue([t EXCEPT !.tfs = Tail(s.tfs)])
                            /\ UNCHANGED <<cooldownTracking, lastFire, keySubjects>>
                       ELSE /\ cooldownTracking' =
                                   TrackingAfter(cooldownTracking, key, TRUE, now)
                            /\ lastFire' = MapSet(lastFire, key, now)
                            /\ keySubjects' =
                                   SubjectsAfter(key, SpikeSubject(s.rule.id, tf, sorted[i]),
                                                 TRUE)
                            /\ spike' = [t EXCEPT !.pc = "append",
                                                  !.threshold = sorted[i],
                                                  !.currentVol = c, !.baselineVol = b,
                                                  !.firedAt = now]
    /\ UNCHANGED <<telegramLinks, memRules, sendLog, response, now, monitorSettings, monitorState, alertRules, alertEvents, pass, passCount, lastEval, lastCall>>
    /\ returned' = NoReturn

\* await createAlertEvent(event)
SpikeAppendEvent ==
    /\ spike.pc = "append"
    /\ alertEvents' = alertEvents \cup {SpikeEvent(spike)}
    /\ spike' = [spike EXCEPT !.pc = "send"]
    /\ lastCheck' = <<>> /\ UNCHANGED <<telegramLinks, memRules, sendLog, response, now, cooldownTracking, monitorSettings, monitorState, alertRules, pass, passCount, lastFire, lastEval, lastCall, keySubjects>>
    /\ returned' = NoReturn

\* await createAlertEvent(event) rejects: the catch of the timeframe's try logs the
\* error and the loop goes on with the next timeframe
SpikeAppendEventThrows ==
    /\ spike.pc = "append"
    /\ SpikeContinue([spike EXCEPT !.tfs = Tail(spike.tfs), !.threshold = 0,
                                   !.currentVol = 0, !.baselineVol = 0, !.firedAt = 0,
                                   !.failed = spike.failed \cup
                                                  {<<spike.rule.id, Head(spike.tfs)>>}])
    /\ lastCheck' = <<>> /\ UNCHANGED <<telegramLinks, memRules, sendLog, response, now, cooldownTracking, monitorSettings, monitorState, alertRules, alertEvents, pass, passCount, lastFire, lastEval, lastCall, keySubjects>>
    /\ returned' = NoReturn

\* await notificationProvider.send(userId, "inApp", ...) inside try/catch, with the
\* given outcome; alertsCount++; break
SpikeSendWith(outcome) ==
    /\ spike.pc = "send"
    /\ sendLog' = sendLog \cup {SendRecord(<<spike.no, spike.alertsCount>>, spike.userId,
                                           "inApp", outcome)}
    /\ SpikeContinue([spike EXCEPT !.alertsCount = spike.alertsCount + 1,
                                   !.tfs = Tail(spike.tfs), !.threshold = 0,
                                   !.currentVol = 0, !.baselineVol = 0, !.firedAt = 0])
    /\ lastCheck' = <<>> /\ UNCHANGED <<telegramLinks, memRules, response, now, cooldownTracking, monitorSettings, monitorState, alertRules, alertEvents, pass, passCount, lastFire, lastEval, lastCall, keySubjects>>
    /\ returned' = NoReturn

SpikeSendNotification == SpikeSendWith("sent")

SpikeSendNotificationRefused == SpikeSendWith("refused")

SpikeSendNotificationThrows == SpikeSendWith("threw")

----------------------------------------------------------------------------
(* The system *)

Init ==
    /\ now = StartMs
    /\ cooldownTracking = EmptyMap
    /\ monitorSettings = EmptyMap
    /\ monitorState = EmptyMap
    /\ alertRules = EmptyMap
    /\ alertEvents = {}
    /\ pass = [p \in Procs |-> IdlePass]
    /\ spike = IdleSpike
    /\ passCount = 0
    /\ lastFire = EmptyMap
    /\ lastCheck = <<>>
    /\ lastEval = EmptyMap
    /\ lastCall = NoCall
    /\ returned = NoReturn
    /\ telegramLinks = EmptyMap
    /\ memRules = EmptyMap
    /\ sendLog = {}
    /\ response = NoResponse
    /\ keySubjects = EmptyMap

MonitorStep(p) ==
    \/ SettingsFind(p)
    \/ SettingsCreate(p)
    \/ GetState(p)
    \/ Upsert(p)
    \/ ProcessCoin(p)
    \/ AppendEvent(p)
    \/ SendNotification(p)

SpikeStep ==
    \/ SpikeLoadRules
    \/ SpikePair(BaselineVolumes, CurrentVolumes)
    \/ SpikeAppendEvent
    \/ SpikeSendNotification

\* Everything at once: two callers of evaluateMonitorAlerts whose calls interleave
\* at their awaits, a call of evaluateSpikeAlerts, the routes, direct checks and the
\* clock. (The callers are interchangeable: p2 calls while p1 is in a call.)
Next ==
    \/ MonitorBegin("p1", MaxPasses, {"u1"}, {F1}, {{"c1"}}, {FullCoinData})
    \/ /\ pass["p1"].pc # "idle"
       /\ MonitorBegin("p2", MaxPasses, {"u1"}, {F1}, {{"c1"}},
                       {FullCoinData})
    \/ \E p \in Procs : MonitorStep(p)
    \/ UpdateMonitorSettings({"u1"}, {F1}, {Given(TRUE)}, {Given(1)})
    \/ CreateRule({"u1"}, {<<"1h">>}, ThresholdInputs, {Given(1)})
    \/ SpikeBegin(MaxPasses, {"u1"})
    \/ SpikeLoadRules
    \/ SpikePair({10}, {35})
    \/ SpikeAppendEvent
    \/ SpikeSendNotification
    \/ DirectCoinCheck({"u1"}, {"A"}, {F1}, {1})
    \/ DirectSpikeCheck({RuleId(1)}, {"1h"}, {3}, {1})
    \/ Tick

Spec == Init /\ [][Next]_vars

\* The cooldown functions alone, called directly on a few keys as the clock moves
NextCooldown ==
    \/ DirectCoinCheck(Users, {"A"}, {F1}, CooldownInputs)
    \/ DirectSpikeCheck({RuleId(1)}, {"1h"}, {2, 3}, CooldownInputs)
    \/ Tick

SpecCooldown == Init /\ [][NextCooldown]_vars

NoCallInFlight == (\A p \in Procs : pass[p].pc = "idle") /\ spike.pc = "idle"

\* Calls of evaluateMonitorAlerts of one user under one filter set, one after the
\* other: each runs to its end before the next call, request or tick of the clock.
NextSeq ==
    \/ /\ NoCallInFlight
       /\ MonitorBegin("p1", MaxSeqPasses, {"u1"}, {F1}, SUBSET CoinIds,
                       CoinDataChoices)
    \/ MonitorStep("p1")
    \/ /\ NoCallInFlight
       /\ UpdateMonitorSettings({"u1"}, {F1}, EnabledInputs, {Absent, Given(1)})
    \/ NoCallInFlight /\ Tick

SpecSeq == Init /\ [][NextSeq]_vars

\* Calls of evaluateSpikeAlerts one after the other over the rules created
NextSpike ==
    \/ /\ NoCallInFlight
       /\ CreateRule({"u1"}, TimeframeInputs, ThresholdInputs, {Absent, Given(1)})
    \/ SpikeBegin(MaxPasses, {"u1"})
    \/ SpikeStep
    \/ Tick

SpecSpike == Init /\ [][NextSpike]_vars

\* Calls of evaluateMonitorAlerts of two users under two filter sets, interleaved
NextMonitor ==
    \/ MonitorBegin("p1", MaxPasses, Users, FilterSets, {{"c1"}, {"c1", "c2"}},
                    {FullCoinData})
    \/ /\ pass["p1"].pc # "idle"
       /\ MonitorBegin("p2", MaxPasses, Users, FilterSets, {{"c1"}, {"c1", "c2"}},
                       {FullCoinData})
    \/ \E p \in Procs : MonitorStep(p)
    \/ Tick

SpecMonitor == Init /\ [][NextMonitor]_vars

----------------------------------------------------------------------------
(* Properties *)

Records(seq) == {seq[i] : i \in 1..Len(seq)}

\* the events the call numbered n has appended
EventsOf(n) == {e \in alertEvents : e.id[1] = n}

\* C1: two consecutive checks of one key that returned true, at times t1 < t2, are
\* at least cooldown_seconds * 1000 ms apart, cooldown_seconds being the value
\* passed to the later check; whoever made the checks (either evaluator, a direct call).
C1_ConsecutiveOpeningsSpaced ==
    \A c \in Records(lastCheck) :
        (c.ok /\ c.prevFire # NoFire /\ c.prevFire < c.at)
            => c.at - c.prevFire >= c.cd * MsPerSecond

\* a key has fired, the clock has moved, and a check of the key has just passed again
C1_Witness ==
    \E c \in Records(lastCheck) : c.ok /\ c.prevFire # NoFire /\ c.prevFire < c.at

\* C2: for a key that last fired at t0, a check at time t with cooldown N returns
\* true and records t iff t - t0 >= N seconds; when it returns false the record is
\* still t0.
C2_CheckIffElapsed ==
    \A c \in Records(lastCheck) :
        c.prevFire # NoFire =>
            /\ c.ok <=> (c.at - c.prevFire >= c.cd * MsPerSecond)
            /\ c.key \in DOMAIN cooldownTracking
            /\ cooldownTracking[c.key] = (IF c.ok THEN c.at ELSE c.prevFire)

\* a check made exactly N seconds after the last fire (N > 0) has returned true
C2_Witness ==
    \E c \in Records(lastCheck) :
        c.ok /\ c.prevFire # NoFire /\ c.cd > 0 /\ c.at - c.prevFire = c.cd * MsPerSecond

\* C3: the first check of a key that has no stored record returns true and records
\* the current time, whatever the time and the cooldown.
C3_FirstCheckPasses ==
    \A c \in Records(lastCheck) :
        ~c.hadRecord =>
            c.ok /\ c.key \in DOMAIN cooldownTracking /\ cooldownTracking[c.key] = c.at

\* the alerts fired so far: the rows of the log, and the events constructed whose
\* append is still awaited
FiredMonitorAlerts ==
    alertEvents \cup {MonitorEvent(pass[p], pass[p].coinData[pass[p].coinId]) :
                          p \in {q \in Procs : pass[q].pc = "append"}}

SettingsCooldownOf(e) ==
    monitorSettings[StateKey(e.user_id, generateFilterSignature(e.monitor_filters))]
        .cooldown_seconds

AbsDiff(a, b) == IF a >= b THEN a - b ELSE b - a

\* C4: when calls of evaluateMonitorAlerts interleave and check the same key within
\* one cooldown window (cooldown_seconds > 0), at most one of the checks passes: no
\* two alerts of one (user, symbol, filter signature) are less than the cooldown apart.
C4_AtMostOneOpens ==
    \A e1, e2 \in FiredMonitorAlerts :
        (/\ e1 # e2
         /\ e1.type = "MONITOR_NEW" /\ e2.type = "MONITOR_NEW"
         /\ e1.user_id = e2.user_id /\ e1.symbol = e2.symbol
         /\ e1.monitor_filters = e2.monitor_filters
         /\ SettingsCooldownOf(e1) > 0)
            => AbsDiff(e1.triggered_at, e2.triggered_at)
                   >= SettingsCooldownOf(e1) * MsPerSecond

\* two calls in flight have both found c1 new under the same (user, signature): one
\* has passed the check and awaits its append, the other has just been refused
C4_Witness ==
    \E p, q \in Procs :
        /\ p # q
        /\ pass[p].userId = pass[q].userId /\ pass[p].filterSig = pass[q].filterSig
        /\ pass[p].pc = "append" /\ pass[p].coinId = "c1"
        /\ pass[q].pc = "loop" /\ "c1" \in pass[q].newCoinIds \ pass[q].todo
        /\ pass[q].alertsCount = 0
        /\ \E c \in Records(lastCheck) : ~c.ok /\ c.prevFire = pass[p].firedAt

\* the ids of the current set that the snapshot read by the returned call lacked
ReturnedDiff == returned.ids \ returned.prev

ReturnedFollowsSameCall ==
    /\ returned.no # 0
    /\ returned.pred.fresh
    /\ returned.pred.no = returned.no - 1
    /\ returned.pred.userId = returned.userId
    /\ returned.pred.filterSig = returned.filterSig
    /\ returned.pred.ids = returned.ids

\* C5: a call of evaluateMonitorAlerts that follows, with nothing in between, a call
\* with the same user, filters and coin ids returns 0 and appends no event,
\* whatever the first call returned.
C5_SecondCallIdempotent ==
    ReturnedFollowsSameCall
        => returned.result = 0 /\ ~returned.threw /\ EventsOf(returned.no) = {}

\* the first of the two calls has alerted, and the second has returned
C5_Witness ==
    /\ ReturnedFollowsSameCall
    /\ returned.ids # {}
    /\ EventsOf(returned.pred.no) # {}

\* C6: the first call for a (user, filter signature) that has no stored snapshot
\* returns 0 and appends no event, however many coins are in the current set; it
\* only stores the baseline.
C6_FirstCallFiresNothing ==
    (returned.no # 0 /\ returned.enabled /\ ~returned.hadState)
        => returned.result = 0 /\ EventsOf(returned.no) = {}

\* C7: with alerts enabled, a stored snapshot P, open cooldown gates and data with
\* distinct symbols for the new members, a call with current set C returns |C - P|
\* and appends exactly one MONITOR_NEW event for each id of C - P.
C7_AlertsEqualNewMembers ==
    (/\ returned.no # 0 /\ returned.enabled /\ returned.hadState
     /\ ReturnedDiff \subseteq returned.openAtDiff
     /\ \A a, b \in ReturnedDiff :
            a # b => returned.coinData[a] # returned.coinData[b])
        => /\ ~returned.threw
           /\ returned.result = Cardinality(ReturnedDiff)
           /\ Cardinality(EventsOf(returned.no)) = Cardinality(ReturnedDiff)
           /\ {e.coinId : e \in EventsOf(returned.no)} = ReturnedDiff
           /\ \A e \in EventsOf(returned.no) :
                  /\ e.type = "MONITOR_NEW"
                  /\ e.symbol = returned.coinData[e.coinId]
                  /\ e.user_id = returned.userId

\* one coin has been added to an otherwise unchanged, non-empty list, and the call
\* has returned 1
C7_Witness ==
    /\ returned.no # 0 /\ returned.enabled /\ returned.hadState
    /\ returned.prev # {} /\ returned.prev \subseteq returned.ids
    /\ Cardinality(ReturnedDiff) = 1
    /\ ReturnedDiff \subseteq returned.openAtDiff
    /\ returned.result = 1

SpikeEvents == {e \in alertEvents : e.type = "SPIKE"}

\* C8: one pass of evaluateSpikeAlerts appends at most one SPIKE event for a
\* (rule, timeframe) pair, never one for a higher and one for a lower threshold.
C8_OneSpikePerPairPerPass ==
    \A e1, e2 \in SpikeEvents :
        (e1.id[1] = e2.id[1] /\ e1.rule_id = e2.rule_id /\ e1.timeframe = e2.timeframe)
            => e1 = e2

\* C9: a SPIKE event carries the highest threshold of its rule that the ratio
\* reaches; a closed gate of that threshold never lets a lower threshold fire.
C9_HighestThresholdOnly ==
    \A e \in SpikeEvents :
        \A i \in 1..Len(e.ruleThresholds) :
            RatioAtLeast(e.current_vol, e.baseline_vol, e.ruleThresholds[i])
                => e.ruleThresholds[i] <= e.threshold

\* C10: a call under (user, signature) computes its new ids against the snapshot
\* last stored under that same pair, and replaces that snapshot only; snapshots
\* under another signature or another user neither count nor change.
C10_BaselineIsolation ==
    [][/\ DOMAIN monitorState \subseteq DOMAIN monitorState'
       /\ \A k \in DOMAIN monitorState' :
             (k \notin DOMAIN monitorState \/ monitorState'[k] # monitorState[k])
                 => \E p \in Procs :
                       /\ pass[p].pc = "upsert" /\ pass'[p].pc # "upsert"
                       /\ k = StateKey(pass[p].userId, pass[p].filterSig)
                       /\ monitorState'[k] = pass[p].ids
       /\ \A p \in Procs :
             (pass[p].pc = "state" /\ pass'[p].pc = "upsert")
                 => pass'[p].newCoinIds =
                        pass[p].ids \ PreviousCoinIds(lastEval, pass[p].userId,
                                                      pass[p].filterSig)]_vars

\* a call has found ids new that the same user's snapshot under another signature
\* holds
C10_Witness ==
    \E p \in Procs :
        /\ pass[p].pc = "upsert"
        /\ \E k \in DOMAIN monitorState :
              /\ k[1] = pass[p].userId /\ k[2] # pass[p].filterSig
              /\ monitorState[k] \cap pass[p].newCoinIds # {}

----------------------------------------------------------------------------
(* Disabled alerts, and members that leave and come back *)

\* Three calls in sequence for one (user, filter set), whose member list loses and
\* regains coins, with the settings route and the clock between the calls
NextChurn ==
    \/ /\ NoCallInFlight
       /\ MonitorBegin("p1", MaxChurnPasses, {"u1"}, {F1}, {{}, {"c1"}, {"c1", "c2"}},
                       {FullCoinData})
    \/ MonitorStep("p1")
    \/ /\ NoCallInFlight
       /\ UpdateMonitorSettings({"u1"}, {F1}, {AbsentFlag, Given(FALSE)}, {Given(1)})
    \/ NoCallInFlight /\ Tick

SpecChurn == Init /\ [][NextChurn]_vars

\* C11: a call made while the settings of (user, signature) are disabled returns 0,
\* appends no event, and still replaces the stored snapshot by the current ids.
C11_DisabledCallReplacesSnapshot ==
    (returned.no # 0 /\ ~returned.enabled)
        => /\ returned.result = 0
           /\ EventsOf(returned.no) = {}
           /\ PreviousCoinIds(monitorState, returned.userId, returned.filterSig)
                  = returned.ids

\* the call before the returned one was for the same (user, signature), ran with
\* alerts enabled, and nothing touched the settings since
ReturnedFollowsEnabledCall ==
    /\ returned.no # 0 /\ returned.enabled
    /\ returned.pred.fresh /\ returned.pred.enabled
    /\ returned.pred.no = returned.no - 1
    /\ returned.pred.userId = returned.userId
    /\ returned.pred.filterSig = returned.filterSig

\* the alerts logged for the symbol of `id` under the returned call's (user, filters)
\* by earlier calls
EarlierAlerts(id) ==
    {e \in alertEvents : /\ e.type = "MONITOR_NEW" /\ e.id[1] < returned.no
                         /\ e.user_id = returned.userId
                         /\ generateFilterSignature(e.monitor_filters) = returned.filterSig
                         /\ e.symbol = returned.coinData[id]}

\* `id` was alerted, was missing from the previous call's list, is in the returned
\* call's list, and the cooldown since the last alert of its symbol has elapsed
ChurnedBack(id) ==
    /\ ReturnedFollowsEnabledCall
    /\ id \in returned.ids \ returned.pred.ids
    /\ id \in DOMAIN returned.coinData
    /\ \E e \in EarlierAlerts(id) : e.coinId = id
    /\ \A e \in EarlierAlerts(id) :
          now - e.triggered_at >= returned.cooldown_seconds * MsPerSecond

----------------------------------------------------------------------------
(* Failures of the event log, of the candles and of the notification provider *)

\* Calls of the two evaluators in sequence for one user, in which createAlertEvent
\* may reject, the candles may be missing, and send may resolve false or reject;
\* the user may link Telegram
NextFault ==
    \/ /\ NoCallInFlight
       /\ MonitorBegin("p1", MaxPasses, {"u1"}, {F1}, {{"c1"}, {"c1", "c2"}},
                       {FullCoinData})
    \/ MonitorStep("p1")
    \/ SendNotificationRefused("p1")
    \/ SendNotificationThrows("p1")
    \/ AppendEventThrows("p1")
    \/ NoCallInFlight /\ LinkTelegram({"u1"})
    \/ NoCallInFlight /\ CreateRule({"u1"}, TimeframeInputs, ThresholdInputs, {Absent})
    \/ NoCallInFlight /\ SpikeBegin(MaxPasses, {"u1"})
    \/ SpikeLoadRules
    \/ SpikePair({0, 10}, {0, 35})
    \/ SpikeAppendEvent
    \/ SpikeAppendEventThrows
    \/ SpikeSendNotification
    \/ SpikeSendNotificationRefused
    \/ SpikeSendNotificationThrows

SpecFault == Init /\ [][NextFault]_vars

FailedSends == {d \in sendLog : d.outcome \in {"refused", "threw"}}

\* C13: snapshot and event are stored before the delivery is attempted: when send
\* resolves false or rejects for a new member, the event is in the log with status
\* "triggered", the alert is counted in the call's result, and the next call with
\* the same member list finds nothing new.
C13_StoredBeforeDelivery ==
    /\ \A d \in FailedSends :
          \E e \in alertEvents : e.id = d.id /\ e.status = "triggered"
    /\ (returned.no # 0 /\ ~returned.threw)
           => returned.result = Cardinality({d \in sendLog : d.id[1] = returned.no})
    /\ (ReturnedFollowsSameCall /\ \E d \in FailedSends : d.id[1] = returned.pred.no)
           => returned.result = 0 /\ EventsOf(returned.no) = {}

\* a call whose delivery failed has been followed by a call with the same list
C13_Witness ==
    /\ ReturnedFollowsSameCall
    /\ \E d \in FailedSends :
          /\ d.id[1] = returned.pred.no
          /\ \E e \in alertEvents : e.id = d.id /\ e.type = "MONITOR_NEW"

\* C14: the logged event of every alert has delivered_channels equal to the channels
\* whose send resolved true: <<"inApp">> after a successful delivery, empty after a
\* failed one.
C14_DeliveredChannelsRecorded ==
    \A d \in sendLog :
        \A e \in alertEvents :
            e.id = d.id =>
                e.delivered_channels = (IF d.outcome = "sent" THEN <<d.channel>> ELSE <<>>)

\* C15: for every alert, delivery is attempted on inApp and on every other channel
\* whose getStatus is true for the user (telegram once linked and enabled).
C15_EveryUsableChannelAttempted ==
    \A d \in sendLog :
        /\ \E a \in sendLog : a.id = d.id /\ a.channel = "inApp"
        /\ d.telegramStatus => \E a \in sendLog : a.id = d.id /\ a.channel = "telegram"

\* C16: in a call of evaluateSpikeAlerts, a (rule, timeframe) pair whose candles were
\* missing or whose event append rejected gets no event from this call (and the
\* call goes on with the other pairs).
C16_FailedPairEmitsNothing ==
    \A pair \in spike.failed :
        ~\E e \in SpikeEvents :
            e.id[1] = spike.no /\ e.rule_id = pair[1] /\ e.timeframe = pair[2]

\* C17: a call of evaluateMonitorAlerts does not reject when the append or the send
\* of one new member fails.
C17_MemberErrorsCaught ==
    returned.no # 0 => ~returned.threw

----------------------------------------------------------------------------
(* The rule routes and the in-memory rule store *)

UnknownRuleId == "ar9"

\* Requests to POST and PUT /api/alerts/rules with empty, missing and given fields,
\* and direct calls of the in-memory store of lib/alertStore.ts
NextRules ==
    \/ PostRule({"u1"}, {"btc", ""}, {<<>>, <<"1h">>}, {<<>>, <<2, 3>>},
                {Absent, Given(5)}, {Absent, Given(0), Given(60)},
                {AbsentFlag, Given(FALSE)})
    \/ PutRule({"", RuleId(1), UnknownRuleId}, {Absent, Given(60)},
               {AbsentFlag, Given(FALSE)})
    \/ StoreCreateRule(StoreRuleInputs)
    \/ StoreUpdateRule(StoreRuleInputs)

SpecRules == Init /\ [][NextRules]_vars

\* C18: creating a rule with an empty symbol, an empty timeframes list or an empty
\* thresholds list is rejected with a validation error (HTTP 400) and stores nothing.
C18_EmptyFieldsRejected ==
    (/\ response.op = "POST"
     /\ \/ response.req.symbol = ""
        \/ response.req.timeframes = <<>>
        \/ response.req.thresholds = <<>>)
        => /\ response.status = 400
           /\ response.after = response.before

\* C19: rule creation stores every field the caller gave unchanged (baseline window,
\* cooldown_seconds including 0, enabled = false), applies 20, 300 and true only to
\* fields left out, and stores the symbol uppercased.
C19_DefaultsOnlyWhenUnspecified ==
    (response.op = "POST" /\ response.status = 201)
        => LET req == response.req
               rule == response.after[req.id]
           IN /\ rule.symbol = ToUpperCase(req.symbol)
              /\ rule.baseline_n =
                     (IF req.baseline_n.given THEN req.baseline_n.v ELSE DefaultBaselineN)
              /\ rule.cooldown_seconds =
                     (IF req.cooldown_seconds.given THEN req.cooldown_seconds.v
                      ELSE DefaultRuleCooldown)
              /\ rule.enabled = (IF req.enabled.given THEN req.enabled.v ELSE TRUE)

\* C20: updating a rule whose id is not in the rule store fails with a not-found
\* error and changes nothing: no rule with that id afterwards, every rule unchanged.
C20_UpdateUnknownRuleFails ==
    (/\ response.op \in {"PUT", "store.update"}
     /\ response.req.id # ""
     /\ response.req.id \notin DOMAIN response.before)
        => /\ response.error = "notFound"
           /\ response.after = response.before

----------------------------------------------------------------------------
(* Partial updates of a rule *)

RuleFields == DOMAIN NoRule

\* PUT requests that name a stored rule and give some of its fields, through the
\* route (Prisma) and through the in-memory store of lib/alertStore.ts
NextUpdate ==
    \/ PostRule(Users, SymbolInputs, {<<"1h">>}, ThresholdInputs, {Absent},
                {Absent, Given(60)}, {AbsentFlag})
    \/ PutRuleBody({RuleId(1)}, {"", "ETH"}, {Absent, Given(0), Given(60)},
                   {AbsentFlag, Given(FALSE), Given(TRUE)})
    \/ StoreCreateRule(StoreRuleInputs)
    \/ StoreUpdatePartial({"m1", "m2"}, {Absent, Given(60)}, {AbsentFlag, Given(FALSE)})

SpecUpdate == Init /\ [][NextUpdate]_vars

\* C21: an update of a stored rule that gives only some fields changes exactly the
\* mutable fields given: every other field keeps its stored value, id and user_id
\* stay, and getUserAlertRules still returns the rule for its owner.
C21_PartialUpdateKeepsOtherFields ==
    (/\ response.op \in {"PUT", "store.update"}
     /\ response.req.id \in DOMAIN response.before
     /\ DOMAIN response.before[response.req.id] = RuleFields)
        => LET req == response.req
               old == response.before[req.id]
           IN /\ req.id \in DOMAIN response.after
              /\ DOMAIN response.after[req.id] = RuleFields
              /\ LET new == response.after[req.id]
                 IN /\ new.id = old.id /\ new.user_id = old.user_id
                    /\ new.symbol = (IF req.symbol # "" THEN req.symbol ELSE old.symbol)
                    /\ new.timeframes = old.timeframes
                    /\ new.thresholds = old.thresholds
                    /\ new.baseline_n = old.baseline_n
                    /\ new.cooldown_seconds = UpdatedField(old.cooldown_seconds,
                                                           req.cooldown_seconds)
                    /\ new.enabled = UpdatedField(old.enabled, req.enabled)
              /\ req.id \in StoreUserRules(response.after, old.user_id)

----------------------------------------------------------------------------
(* GET /api/alerts/events -> getUserAlertEvents *)

\* a number of JavaScript: an integer or NaN
Num(n) == [nan |-> FALSE, v |-> n]
NaN == [nan |-> TRUE, v |-> 0]

\* the `limit` query parameters of the model; NONE: the parameter is missing
LimitInputs == {NONE, "", "0", "1", "500", "501", "99999", "-1", "-99999", "abc"}

\* request.nextUrl.searchParams.get("limit") || "50"
LimitText(param) == IF param = NONE \/ param = "" THEN "50" ELSE param

\* parseInt(text, 10) on the texts of the model
ParseInt(text) ==
    CASE text = "0" -> Num(0)
      [] text = "1" -> Num(1)
      [] text = "50" -> Num(50)
      [] text = "500" -> Num(500)
      [] text = "501" -> Num(501)
      [] text = "99999" -> Num(99999)
      [] text = "-1" -> Num(0 - 1)
      [] text = "-99999" -> Num(0 - 99999)
      [] OTHER -> NaN

\* Math.min(a, b) with b an integer: NaN when a is NaN
MathMin(a, b) == IF a.nan THEN NaN ELSE Num(IF a.v <= b THEN a.v ELSE b)

\* prisma findMany({ take }) on a list of n rows: the first `take` rows, or for a
\* negative take the last -take rows
PrismaTake(n, take) ==
    LET wanted == IF take >= 0 THEN take ELSE 0 - take
    IN IF n <= wanted THEN n ELSE wanted

UserEvents(userId) == {e \in alertEvents : e.user_id = userId}

\* history record of the answer to GET /api/alerts/events: the parameter, the
\* number of events of the user in the log and the number of events returned
Listing(userId, param, status, stored, listed) ==
    [op |-> "GET events", status |-> status, user_id |-> userId, limit |-> param,
     stored |-> stored, listed |-> listed]

\* GET /api/alerts/events: getUserAlertEvents(userId, Math.min(limit, 500)); a take
\* that is NaN is refused by the client's validation and the catch answers 500
GetEvents(users, limits) ==
    /\ \E u \in users, param \in limits :
         LET take == MathMin(ParseInt(LimitText(param)), EventCap)
             stored == Cardinality(UserEvents(u))
         IN response' = IF take.nan THEN Listing(u, param, 500, stored, 0)
                        ELSE Listing(u, param, 200, stored, PrismaTake(stored, take.v))
    /\ response' # response
    /\ lastCheck' = <<>> /\ returned' = NoReturn
    /\ UNCHANGED <<telegramLinks, memRules, sendLog, now, cooldownTracking, monitorSettings, monitorState, alertRules, alertEvents, pass, spike, passCount, lastFire, lastEval, lastCall, keySubjects>>

\* createAlertEvent(event) called for a user, with a fresh id (the evaluators' ids
\* start with the number of their call, these with 0 or less)
CreateAlertEvent(userId, limit) ==
    /\ Cardinality(UserEvents(userId)) < limit
    /\ LET row == [MonitorEvent(IdlePass, "A") EXCEPT
                      !.id = <<IF userId = "u1" THEN 0 ELSE 0 - 1,
                               Cardinality(UserEvents(userId)) + 1>>,
                      !.user_id = userId, !.triggered_at = now]
       IN /\ alertEvents' = alertEvents \cup {row}
          /\ response' = [op |-> "createAlertEvent", status |-> 0, id |-> row.id]
    /\ lastCheck' = <<>> /\ returned' = NoReturn
    /\ UNCHANGED <<telegramLinks, memRules, sendLog, now, cooldownTracking, monitorSettings, monitorState, alertRules, pass, spike, passCount, lastFire, lastEval, lastCall, keySubjects>>

\* The event log grows past the cap while the events are listed with every kind
\* of limit
NextEvents ==
    \/ CreateAlertEvent("u1", MaxEvents)
    \/ CreateAlertEvent("u2", MaxOtherEvents)
    \/ GetEvents({"u1"}, LimitInputs)

SpecEvents == Init /\ [][NextEvents]_vars

\* C22: listing a user's events returns at most 500 events whatever the limit asked
\* for (large, zero, negative, not a number), and at most `limit` events when the
\* limit is between 0 and 500.
C22_ListingCapped ==
    response.op = "GET events"
        => /\ response.listed <= EventCap
           /\ LET limit == ParseInt(LimitText(response.limit))
              IN (~limit.nan /\ limit.v >= 0 /\ limit.v <= EventCap)
                     => response.listed <= limit.v

----------------------------------------------------------------------------
(* notificationProvider.send *)

Channels == {"inApp", "telegram", "email", "slack"}

\* CompositeNotificationProvider: the channels that have a provider
RegisteredChannels == {"inApp", "telegram"}

\* what the world does to one send: the lookup of the link resolves or rejects,
\* TELEGRAM_BOT_TOKEN is set or not, and fetch resolves ok, resolves not ok with
\* or without a JSON body, or rejects
LinkLookups == {"resolves", "rejects"}
BotTokens == {"", "token"}
Transports == {"ok", "notOk", "notOkBadBody", "rejects"}

\* how a stretch of code ends: result "true" or "false", or "threw"; whether
\* fetch was called (a message went out) and whether an in-app notification
\* was stored
Outcome(result, fetched, notified) ==
    [result |-> result, fetched |-> fetched, notified |-> notified]

Uncaught(o) == o

\* try { ... } catch (error) { console.error(...); return false; }
CatchReturnFalse(o) == IF o.result = "threw" THEN [o EXCEPT !.result = "false"] ELSE o

\* sendTelegramMessage
sendTelegramMessage(token, transport) ==
    CatchReturnFalse(
        IF token = "" THEN Outcome("false", FALSE, FALSE)
        ELSE CASE transport = "rejects" -> Outcome("threw", TRUE, FALSE)
               [] transport = "notOk" -> Outcome("false", TRUE, FALSE)
               [] transport = "notOkBadBody" -> Outcome("threw", TRUE, FALSE)
               [] OTHER -> Outcome("true", TRUE, FALSE))

\* the test of TelegramNotificationProvider.send: !(!link?.chatId || !link.enabled)
LinkUsable(userId) ==
    /\ userId \in DOMAIN telegramLinks
    /\ telegramLinks[userId].chatId # ""
    /\ telegramLinks[userId].enabled

\* TelegramNotificationProvider.send
TelegramSend(userId, channel, lookup, token, transport) ==
    IF channel # "telegram" THEN Outcome("false", FALSE, FALSE)
    ELSE CatchReturnFalse(
             IF lookup = "rejects" THEN Outcome("threw", FALSE, FALSE)
             ELSE IF ~LinkUsable(userId) THEN Outcome("false", FALSE, FALSE)
             ELSE sendTelegramMessage(token, transport))

\* InAppNotificationProvider.send
InAppSend(userId, channel) ==
    IF channel # "inApp" THEN Outcome("false", FALSE, FALSE)
    ELSE Outcome("true", FALSE, TRUE)

\* CompositeNotificationProvider.send
CompositeSend(userId, channel, lookup, token, transport) ==
    IF channel \notin RegisteredChannels THEN Outcome("false", FALSE, FALSE)
    ELSE IF channel = "inApp" THEN InAppSend(userId, channel)
    ELSE TelegramSend(userId, channel, lookup, token, transport)

\* history record of one call of notificationProvider.send
Sent(userId, channel, lookup, token, transport, o) ==
    [op |-> "send", user_id |-> userId, channel |-> channel, lookup |-> lookup,
     token |-> token, transport |-> transport, usable |-> LinkUsable(userId),
     result |-> o.result, fetched |-> o.fetched, notified |-> o.notified,
     linksBefore |-> telegramLinks, linksAfter |-> telegramLinks']

\* notificationProvider.send(userId, channel, payload); the link is only read
ProviderSend(users, channels, lookups, tokens, transports) ==
    /\ \E u \in users, ch \in channels, l \in lookups, tk \in tokens, tr \in transports :
         /\ UNCHANGED telegramLinks
         /\ response' = Sent(u, ch, l, tk, tr, CompositeSend(u, ch, l, tk, tr))
    /\ response' # response
    /\ lastCheck' = <<>> /\ returned' = NoReturn
    /\ UNCHANGED <<memRules, sendLog, now, cooldownTracking, monitorSettings, monitorState, alertRules, alertEvents, pass, spike, passCount, lastFire, lastEval, lastCall, keySubjects>>

\* getOrCreateTelegramLink: a new row has no chatId and enabled false
GetOrCreateTelegramLink(users) ==
    /\ \E u \in users :
         /\ u \notin DOMAIN telegramLinks
         /\ telegramLinks' = MapSet(telegramLinks, u, [chatId |-> "", enabled |-> FALSE])
    /\ lastCheck' = <<>> /\ returned' = NoReturn
    /\ UNCHANGED <<memRules, sendLog, response, now, cooldownTracking, monitorSettings, monitorState, alertRules, alertEvents, pass, spike, passCount, lastFire, lastEval, lastCall, keySubjects>>

\* updateTelegramChatId(userId, chatId, enabled) on the row of the user
UpdateTelegramChatId(users, chatIds, flags) ==
    /\ \E u \in users, chatId \in chatIds, enabled \in flags :
         /\ u \in DOMAIN telegramLinks
         /\ telegramLinks' = MapSet(telegramLinks, u, [chatId |-> chatId, enabled |-> enabled])
    /\ telegramLinks' # telegramLinks
    /\ lastCheck' = <<>> /\ returned' = NoReturn
    /\ UNCHANGED <<memRules, sendLog, response, now, cooldownTracking, monitorSettings, monitorState, alertRules, alertEvents, pass, spike, passCount, lastFire, lastEval, lastCall, keySubjects>>

\* Sends on every channel, for users without a link, with a link that has no chat
\* or is disabled, and with a usable link, whatever the token and the transport
NextSend ==
    \/ GetOrCreateTelegramLink(Users)
    \/ UpdateTelegramChatId(Users, {"", "chat"}, BOOLEAN)
    \/ ProviderSend({"u1"}, Channels, LinkLookups, BotTokens, Transports)

SpecSend == Init /\ [][NextSend]_vars

\* the named cases in which a send cannot deliver
SendCannotDeliver ==
    \/ response.channel \notin RegisteredChannels
    \/ /\ response.channel = "telegram"
       /\ \/ ~response.usable
          \/ response.lookup = "rejects"
          \/ response.token = ""
          \/ response.transport # "ok"

\* C23: send never throws; for a channel without provider, a telegram user that is
\* not linked or not enabled, a missing bot token or a failing transport it returns
\* false; for an unlinked or disabled user no message goes out and no state changes.
C23_SendNeverThrows ==
    response.op = "send"
        => /\ response.result # "threw"
           /\ SendCannotDeliver => response.result = "false"
           /\ (response.channel = "telegram" /\ ~response.usable)
                  => /\ ~response.fetched /\ ~response.notified
                     /\ response.linksAfter = response.linksBefore

\* a telegram send for a usable link whose fetch rejected has returned false
C23_Witness ==
    /\ response.op = "send" /\ response.channel = "telegram"
    /\ response.usable /\ response.token # "" /\ response.transport = "rejects"
    /\ response.fetched /\ response.result = "false"

----------------------------------------------------------------------------
(* The keys of the cooldown map *)

\* getUserId: the x-user-id header, any text; and symbols as the coin data has them
KeyUsers == {"u", "u:A"}
KeySymbols == {"B", "A:B"}

\* Cooldown checks for users and symbols whose text may hold a ':', and for the
\* thresholds and timeframes of a rule, as the clock moves
NextKeys ==
    \/ DirectCoinCheck(KeyUsers, KeySymbols, {F1}, {1})
    \/ DirectSpikeCheck({RuleId(1)}, {"1h"}, {2, 3}, {1})
    \/ Tick

SpecKeys == Init /\ [][NextKeys]_vars

\* C24: a key of the cooldown map stands for one subject only: no two different
\* (user, symbol, signature) or (rule, timeframe, threshold) triples, and no
\* entrant triple and spike triple, use the same key, also when a component
\* holds a ':'.
C24_KeyIdentifiesSubject ==
    \A k \in DOMAIN keySubjects : Cardinality(keySubjects[k]) <= 1

----------------------------------------------------------------------------
(* Calls of evaluateMonitorAlerts that interleave on one (user, signature) *)

\* the call of p has computed its new ids; it has stored its list once past "upsert"
HasDiffed(p) == pass[p].pc \in {"upsert", "loop", "append", "send"}
HasStored(p) == pass[p].pc \in {"loop", "append", "send"}

\* what the calls of p and q computed and stored is what p's call followed by q's
\* call would have: q's new ids are its list minus p's list, and once both have
\* stored, the snapshot is q's list
AsIfInOrder(p, q) ==
    /\ pass[q].newCoinIds = pass[q].ids \ pass[p].ids
    /\ (HasStored(p) /\ HasStored(q))
           => PreviousCoinIds(monitorState, pass[q].userId, pass[q].filterSig)
                  = pass[q].ids

\* C25: the diff against the snapshot and its replacement are one atomic step: two
\* calls for one (user, signature) that interleave at their awaits compute the new
\* ids, and leave the snapshot, of the two calls run one after the other in some
\* order.
C25_DiffAndReplaceAtomic ==
    \A p, q \in Procs :
        (/\ p # q /\ HasDiffed(p) /\ HasDiffed(q)
         /\ pass[p].userId = pass[q].userId /\ pass[p].filterSig = pass[q].filterSig)
            => AsIfInOrder(p, q) \/ AsIfInOrder(q, p)

\* C26: getOrCreateMonitorAlertSettings is idempotent, also when calls interleave:
\* a call never changes a record that exists, never raises an error, and hands its
\* caller the one record of the (user, signature).
C26_GetOrCreateIdempotent ==
    [][/\ \A k \in DOMAIN monitorSettings :
             k \in DOMAIN monitorSettings' /\ monitorSettings'[k] = monitorSettings[k]
       /\ \A p \in Procs :
             pass[p].pc \in {"settings", "create"}
                 => /\ pass'[p].pc = "idle" => ~returned'.threw
                    /\ pass'[p].pc = "state"
                           => LET k == StateKey(pass[p].userId, pass[p].filterSig)
                              IN /\ k \in DOMAIN monitorSettings'
                                 /\ pass'[p].cooldown_seconds
                                        = monitorSettings'[k].cooldown_seconds]_vars

----------------------------------------------------------------------------
(* The new members of one pass *)

\* the call that has returned appended an event for the new member `id`
AlertedInReturned(id) == \E e \in EventsOf(returned.no) : e.coinId = id

\* C27: each new member of a pass is evaluated on its own: it is alerted exactly
\* when its data is there and its own cooldown gate was open when the pass began,
\* whichever other ids are new in the pass and in whatever order they are taken,
\* also when two new ids have the same display symbol.
C27_NewMembersIndependent ==
    (returned.no # 0 /\ returned.enabled /\ ~returned.threw)
        => \A id \in returned.newCoinIds :
               AlertedInReturned(id) <=> id \in returned.openAtDiff

----------------------------------------------------------------------------
(* The baseline volume *)

\* Binance klines, oldest first; the last one is the candle that is still forming
CandleVolumes == {10, 30, 50}

RECURSIVE CandleLists(_)
\* the lists of n candles, the candle at position i having timestamp i
CandleLists(n) ==
    IF n = 0 THEN {<<>>}
    ELSE {Append(cs, [timestamp |-> n, volume |-> v]) :
              cs \in CandleLists(n - 1), v \in CandleVolumes}

\* what fetchCandles(symbol, timeframe, limit) may resolve to: at most `limit`
\* candles, fewer for a pair listed not long ago
FetchedCandles(limit) == UNION {CandleLists(n) : n \in 0..limit}

\* Array.prototype.slice(0, end) for end >= 0
SliceFromStart(seq, end) == SubSeq(seq, 1, IF end <= Len(seq) THEN end ELSE Len(seq))

RECURSIVE SumVolumes(_)
\* reduce((sum, c) => sum + c.volume, 0)
SumVolumes(cs) == IF cs = <<>> THEN 0 ELSE Head(cs).volume + SumVolumes(Tail(cs))

\* history record of one volume computation: the candles fetched, the candles
\* averaged, and the average as sum / count
Baseline(op, candles, baselineN, used) ==
    [op |-> op, candles |-> candles, baseline_n |-> baselineN, used |-> used,
     sum |-> SumVolumes(used), count |-> Len(used)]

\* getBaselineVolume(symbol, timeframe, baselineN): candles.slice(0, baselineN) of
\* the baselineN + 1 candles asked for; 0 when there is no candle
GetBaselineVolume(baselineNs) ==
    /\ \E n \in baselineNs : \E candles \in FetchedCandles(n + 1) :
         response' = Baseline("getBaselineVolume", candles, n,
                              IF Len(candles) = 0 THEN <<>>
                              ELSE SliceFromStart(candles, n))
    /\ response' # response
    /\ lastCheck' = <<>> /\ returned' = NoReturn
    /\ UNCHANGED <<telegramLinks, memRules, sendLog, now, cooldownTracking, monitorSettings, monitorState, alertRules, alertEvents, pass, spike, passCount, lastFire, lastEval, lastCall, keySubjects>>

\* calculateVolumeSpike(candles, baselineCandles):
\* candles.slice(0, Math.max(baselineCandles, 1))
CalculateVolumeSpike(baselineNs) ==
    /\ \E n \in baselineNs : \E candles \in FetchedCandles(n + 1) :
         response' = Baseline("calculateVolumeSpike", candles, n,
                              IF Len(candles) = 0 THEN <<>>
                              ELSE SliceFromStart(candles, IF n >= 1 THEN n ELSE 1))
    /\ response' # response
    /\ lastCheck' = <<>> /\ returned' = NoReturn
    /\ UNCHANGED <<telegramLinks, memRules, sendLog, now, cooldownTracking, monitorSettings, monitorState, alertRules, alertEvents, pass, spike, passCount, lastFire, lastEval, lastCall, keySubjects>>

\* Volume computations over every list of candles the exchange may return
NextBaseline ==
    \/ GetBaselineVolume(1..MaxBaselineN)
    \/ CalculateVolumeSpike(1..MaxBaselineN)

SpecBaseline == Init /\ [][NextBaseline]_vars

\* C28: the baseline is averaged over closed candles only: the candle that is
\* still forming (the last one returned) is never among the candles averaged,
\* however many candles the exchange returns.
C28_BaselineExcludesFormingCandle ==
    (response.op \in {"getBaselineVolume", "calculateVolumeSpike"}
         /\ response.candles # <<>>)
        => \A i \in 1..Len(response.used) :
               response.used[i] # response.candles[Len(response.candles)]

----------------------------------------------------------------------------
(* PUT /api/alerts/monitor with some of the fields *)

\* history record of the answer to PUT /api/alerts/monitor: the fields of the body,
\* and the settings and the snapshots before and after
MonitorAnswer(status, key, e, c, after) ==
    [op |-> "PUT monitor", status |-> status, key |-> key, enabled |-> e,
     cooldown_seconds |-> c, before |-> monitorSettings, after |-> after,
     stateBefore |-> monitorState, stateAfter |-> monitorState']

\* PUT /api/alerts/monitor: 400 without filters; otherwise the route fills in
\* enabled and cooldown_seconds and updateMonitorAlertSettings upserts both
PutMonitor(users, filterSets, enabledIn, cooldownIn) ==
    /\ UNCHANGED monitorState
    /\ \E u \in users, hasFilters \in BOOLEAN, f \in filterSets, e \in enabledIn,
          c \in cooldownIn :
         LET key == StateKey(u, generateFilterSignature(f))
         IN IF ~hasFilters
            THEN /\ UNCHANGED monitorSettings
                 /\ response' = MonitorAnswer(400, StateKey(u, ""), e, c, monitorSettings)
            ELSE /\ monitorSettings' =
                        MapSet(monitorSettings, key,
                               [enabled |-> RouteEnabled(e),
                                cooldown_seconds |-> RouteMonitorCooldown(c)])
                 /\ response' = MonitorAnswer(200, key, e, c, monitorSettings')
    /\ response' # response
    /\ lastCall' = [lastCall EXCEPT !.fresh = FALSE]
    /\ returned' = NoReturn
    /\ lastCheck' = <<>> /\ UNCHANGED <<telegramLinks, memRules, sendLog, now, cooldownTracking, alertRules, alertEvents, pass, spike, passCount, lastFire, lastEval, keySubjects>>

\* Requests to the settings route between calls of the evaluator
NextPutMonitor ==
    \/ /\ NoCallInFlight
       /\ PutMonitor({"u1"}, {F1}, EnabledInputs, {Absent, Given(1), Given(2)})
    \/ /\ NoCallInFlight
       /\ MonitorBegin("p1", MaxSeqPasses, {"u1"}, {F1}, {{"c1"}, {"c1", "c2"}},
                       {FullCoinData})
    \/ MonitorStep("p1")

SpecPutMonitor == Init /\ [][NextPutMonitor]_vars

\* C29: a PUT of the monitor settings changes only the fields it gives: without
\* enabled the stored flag stays (a disabled pair stays disabled), without
\* cooldown_seconds the stored cooldown stays, and the member snapshot is never
\* changed.
C29_PutMonitorKeepsOtherFields ==
    response.op = "PUT monitor"
        => /\ response.stateAfter = response.stateBefore
           /\ (response.status = 200 /\ response.key \in DOMAIN response.before)
                  => LET old == response.before[response.key]
                         new == response.after[response.key]
                     IN /\ ~response.enabled.given => new.enabled = old.enabled
                        /\ ~response.cooldown_seconds.given
                               => new.cooldown_seconds = old.cooldown_seconds

\* ---------------------------------------------------------------------------
\* A member that was found new without being alerted
\* ---------------------------------------------------------------------------

\* sequential calls for one pair: a member can be alerted, leave, come back
\* while its gate is closed or its data is missing, and stay
NextAbsorb ==
    \/ /\ NoCallInFlight
       /\ MonitorBegin("p1", MaxAbsorbPasses, {"u1"}, {F1}, {{}, {"c1"}, {"c2"}},
                       CoinDataChoices)
    \/ MonitorStep("p1")
    \/ /\ NoCallInFlight
       /\ UpdateMonitorSettings({"u1"}, {F1}, {AbsentFlag}, {Given(2)})
    \/ NoCallInFlight /\ Tick

SpecAbsorb == Init /\ [][NextAbsorb]_vars

\* the returned call continues the member set of the call before it
ReturnedContinuesPair ==
    /\ returned.no # 0
    /\ returned.pred.userId = returned.userId
    /\ returned.pred.filterSig = returned.filterSig

\* C30: a member found new while its cooldown gate is closed or its data is
\* missing gets no alert in that call, and none in any later call for as long
\* as every list since then holds it
C30_AbsorbedMemberNotAlerted ==
    /\ returned.no # 0 =>
           \A id \in returned.newCoinIds \ returned.openAtDiff : ~AlertedInReturned(id)
    /\ ReturnedContinuesPair =>
           \A id \in returned.pred.absorbed \cap returned.ids : ~AlertedInReturned(id)

\* a call returned without alerting an absorbed member whose gate, closed when
\* it came back, is open again
C30_Witness ==
    /\ ReturnedContinuesPair
    /\ returned.enabled /\ ~returned.threw
    /\ \E id \in returned.pred.absorbed \cap returned.ids :
           /\ id \in DOMAIN returned.coinData
           /\ CoinCooldownKey(returned.userId, returned.coinData[id], returned.filterSig)
                  \in DOMAIN cooldownTracking
           /\ GateOpen(CoinCooldownKey(returned.userId, returned.coinData[id],
                                       returned.filterSig), returned.cooldown_seconds)
           /\ ~AlertedInReturned(id)


====
